---- MODULE Spec2Model ----
(***************************************************************************)
(* Model of the contact form handler of src/app.js: the validateForm       *)
(* middleware chain and the async POST /contact-us handler.                *)
(*                                                                         *)
(* Text values are sequences of one-character strings so that trim,        *)
(* escape and normalizeEmail are computed and not assumed.  One action is  *)
(* one run-to-completion step of the JavaScript event loop: the code       *)
(* between two awaits of the handler.  The process-wide variable `data`    *)
(* (assigned without a declaration at line 121) is shared by all requests. *)
(* The fields phone, service and referral only flow into the mail text and *)
(* are left out.                                                           *)
(***************************************************************************)
EXTENDS Integers, Sequences, FiniteSets, TLC

\* ------------------------------------------------------------------ bounds
NumReqs == 2
MaxNameLen == 3

Reqs == 1..NumReqs

\* ----------------------------------------------------- JavaScript values
Undefined == "undefined"

\* !v of JavaScript for the values a form field can take
Truthy(v) == v # Undefined /\ v # ""

\* ------------------------------------------------- validator primitives
Whitespace == {" "}

RECURSIVE ltrim(_)
ltrim(s) == IF s # <<>> /\ Head(s) \in Whitespace THEN ltrim(Tail(s)) ELSE s

RECURSIVE rtrim(_)
rtrim(s) ==
  IF s # <<>> /\ s[Len(s)] \in Whitespace THEN rtrim(SubSeq(s, 1, Len(s) - 1)) ELSE s

trim(s) == rtrim(ltrim(s))

\* the entity validator.js escape() writes for one character (the backslash
\* and the backquote, also replaced, are not in the modelled alphabet)
Entity(c) ==
  CASE c = "&" -> <<"&", "a", "m", "p", ";">>
    [] c = "<" -> <<"&", "l", "t", ";">>
    [] c = ">" -> <<"&", "g", "t", ";">>
    [] c = "\"" -> <<"&", "q", "u", "o", "t", ";">>
    [] c = "'" -> <<"&", "#", "x", "2", "7", ";">>
    [] c = "/" -> <<"&", "#", "x", "2", "F", ";">>
    [] OTHER -> <<c>>

RECURSIVE escape(_)
escape(s) == IF s = <<>> THEN <<>> ELSE Entity(Head(s)) \o escape(Tail(s))

notEmpty(s) == Len(s) > 0

isLength(s, min) == Len(s) >= min

LowerChar(c) ==
  CASE c = "A" -> "a"
    [] c = "B" -> "b"
    [] c = "C" -> "c"
    [] OTHER -> c

toLowerCase(s) == [i \in 1..Len(s) |-> LowerChar(s[i])]

\* position of the last "@" of s, 0 when there is none
LastAt(s) ==
  LET P == {i \in 1..Len(s) : s[i] = "@"}
  IN IF P = {} THEN 0 ELSE CHOOSE i \in P : \A j \in P : j <= i

\* email.split("@"): the domain is the last part, the user the rest joined
UserPart(s) == IF LastAt(s) = 0 THEN <<>> ELSE SubSeq(s, 1, LastAt(s) - 1)
DomainPart(s) == SubSeq(s, LastAt(s) + 1, Len(s))

\* normalizeEmail for a domain that is no mail provider with rules of its
\* own: both parts lowercased and joined again with "@"
normalizeEmail(s) == toLowerCase(UserPart(s)) \o <<"@">> \o toLowerCase(DomainPart(s))

Letters == {"a", "b", "c", "o", "A", "B", "C"}

\* the dot-separated parts of s are all non-empty and made of letters
DotParts(s) ==
  /\ s # <<>>
  /\ s[1] # "." /\ s[Len(s)] # "."
  /\ \A i \in 1..Len(s) : s[i] \in Letters \/ s[i] = "."
  /\ \A i \in 1..(Len(s) - 1) : ~(s[i] = "." /\ s[i + 1] = ".")

LastDot(s) ==
  LET P == {i \in 1..Len(s) : s[i] = "."}
  IN IF P = {} THEN 0 ELSE CHOOSE i \in P : \A j \in P : j <= i

\* isEmail: user@domain, the domain a name with a top-level part of two
\* letters or more
isEmail(s) ==
  /\ LastAt(s) > 0
  /\ DotParts(UserPart(s))
  /\ DotParts(DomainPart(s))
  /\ LastDot(DomainPart(s)) > 0
  /\ Len(DomainPart(s)) - LastDot(DomainPart(s)) >= 2

\* --------------------------------------------------------- validateForm
\* the sanitizers of each chain, in chain order; express-validator writes
\* the sanitized value back into req.body
SanitizeFirstName(v) == escape(trim(v))
SanitizeLastName(v) == escape(trim(v))
SanitizeEmail(v) == normalizeEmail(trim(v))
SanitizeMessage(v) == escape(trim(v))

Sanitized(body) ==
  [body EXCEPT !.first_name = SanitizeFirstName(@),
               !.last_name = SanitizeLastName(@),
               !.email = SanitizeEmail(@),
               !.message = SanitizeMessage(@)]

MinFirstName == 3
MinLastName == 2

\* the message of the first failing validator of a chain, "" when none fails
FirstNameError(v) ==
  IF ~notEmpty(v) THEN "First name is required"
  ELSE IF ~isLength(v, MinFirstName) THEN "First name must be at least 3 characters long"
  ELSE ""

LastNameError(v) ==
  IF ~notEmpty(v) THEN "Last name is required"
  ELSE IF ~isLength(v, MinLastName) THEN "Last name must be at least 2 characters long"
  ELSE ""

EmailError(v) == IF ~isEmail(v) THEN "Email is not valid" ELSE ""

MessageError(v) == IF ~notEmpty(v) THEN "Message is required" ELSE ""

ValidatedFields == {"first_name", "last_name", "email", "message"}

FieldError(f, sb) ==
  CASE f = "first_name" -> FirstNameError(sb.first_name)
    [] f = "last_name" -> LastNameError(sb.last_name)
    [] f = "email" -> EmailError(sb.email)
    [] f = "message" -> MessageError(sb.message)

\* validationResult(req).mapped() for the sanitized body sb
mapped(sb) ==
  [f \in {g \in ValidatedFields : FieldError(g, sb) # ""} |-> FieldError(f, sb)]

EmptyObject == [f \in {} |-> ""]

\* ---------------------------------------------------------------- inputs
NameAlphabet == {" ", "a", "<"}

RECURSIVE SeqsUpTo(_, _)
SeqsUpTo(A, n) ==
  IF n = 0 THEN {<<>>}
  ELSE LET S == SeqsUpTo(A, n - 1)
       IN S \cup {Append(s, c) : s \in {t \in S : Len(t) = n - 1}, c \in A}

FirstNames == SeqsUpTo(NameAlphabet, MaxNameLen)
LastNames == {<<>>, <<"b">>, <<"b", "o">>}
Emails == {<<"a", "@", "b", ".", "c", "o">>, <<" ", "A", "@", "b", ".", "c", "o">>,
           <<"a", "b">>}
Messages == {<<>>, <<"a">>, <<"<", "a">>}
Tokens == {Undefined, "", "tok"}
Newsletters == {Undefined, "on"}

\* every submission of the input space
AllBodies ==
  [first_name : FirstNames, last_name : LastNames, email : Emails,
   message : Messages, token : Tokens, newsletter : Newsletters]

\* the submissions of concurrent requests: one field invalid or none
Bodies ==
  [first_name : {<<"A", "l">>, <<"a", "a", "a">>}, last_name : {<<"b", "o">>},
   email : {<<"a", "@", "b", ".", "c", "o">>}, message : {<<"a">>},
   token : {"", "tok"}, newsletter : Newsletters]

NoBody ==
  [first_name |-> <<>>, last_name |-> <<>>, email |-> <<>>, message |-> <<>>,
   token |-> Undefined, newsletter |-> Undefined]

\* what the verification endpoint can answer, the score in tenths
Scores == {3, 5, 9}
Outcomes == [success : BOOLEAN, score : Scores, action : {"submit", "homepage"}]

NoData == [success |-> FALSE, score |-> 0, action |-> Undefined]

\* ----------------------------------------------------------------- state
VARIABLES
  pc,          \* where each request's handler is suspended
  raw,         \* the form fields as the client sent them
  body,        \* req.body as the handler sees it
  resp,        \* the response sent for the request
  nResp,       \* how many responses were sent for the request
  verifyCalls, \* calls to the verification endpoint made by the request
  mailCalls,   \* calls of transporter.sendMail made by the request
  subCalls,    \* calls to the list API made by the request
  failed,      \* the external calls of the request that threw
  outcome,     \* what response.json() returned to the request
  decidedOn,   \* the value of data read by the check of line 136
  data         \* the process-wide variable data

vars == <<pc, raw, body, resp, nResp, verifyCalls, mailCalls, subCalls, failed,
          outcome, decidedOn, data>>

NoResp ==
  [status |-> 0, kind |-> "none", errors |-> EmptyObject, formData |-> {},
   successMessage |-> Undefined, error |-> Undefined]

\* res.status(s).render("contact", {errors, formData, successMessage});
\* formData holds the object passed, the empty set standing for {}
Render(s, errors, formData, successMessage) ==
  [status |-> s, kind |-> "render", errors |-> errors, formData |-> formData,
   successMessage |-> successMessage, error |-> Undefined]

\* res.status(s).json({error})
Json(s, error) ==
  [status |-> s, kind |-> "json", errors |-> EmptyObject, formData |-> {},
   successMessage |-> Undefined, error |-> error]

\* the error page of the framework's default error handler
ErrorPage ==
  [status |-> 500, kind |-> "errorPage", errors |-> EmptyObject, formData |-> {},
   successMessage |-> Undefined, error |-> Undefined]

CaptchaError(msg) == [f \in {"captcha"} |-> msg]

Init ==
  /\ pc = [r \in Reqs |-> "idle"]
  /\ raw = [r \in Reqs |-> NoBody]
  /\ body = [r \in Reqs |-> NoBody]
  /\ resp = [r \in Reqs |-> NoResp]
  /\ nResp = [r \in Reqs |-> 0]
  /\ verifyCalls = [r \in Reqs |-> 0]
  /\ mailCalls = [r \in Reqs |-> 0]
  /\ subCalls = [r \in Reqs |-> 0]
  /\ failed = [r \in Reqs |-> {}]
  /\ outcome = [r \in Reqs |-> NoData]
  /\ decidedOn = [r \in Reqs |-> NoData]
  /\ data = NoData

\* the handler of request r sends response x and returns
Respond(r, x) ==
  /\ resp' = [resp EXCEPT ![r] = x]
  /\ nResp' = [nResp EXCEPT ![r] = @ + 1]
  /\ pc' = [pc EXCEPT ![r] = "done"]

\* ---------------------------------------------------------------- handler
\* the token check written as a test for undefined only
TokenMissingUndefinedOnly(token) == token = Undefined

TokenMissing(token) == ~Truthy(token)

\* POST /contact-us arrives: validateForm runs, then the handler up to its
\* first await
Post(r, B) ==
  /\ pc[r] = "idle"
  /\ \E b \in B :
       LET sb == Sanitized(b)
           errors == mapped(sb)
       IN /\ raw' = [raw EXCEPT ![r] = b]
          /\ body' = [body EXCEPT ![r] = sb]
          /\ IF errors # EmptyObject
               THEN /\ Respond(r, Render(400, errors, {sb}, Undefined))
                    /\ UNCHANGED verifyCalls
             ELSE IF TokenMissing(sb.token)
               THEN /\ Respond(r, Render(400,
                          CaptchaError("Missing reCAPTCHA token. Please try again."),
                          {sb}, Undefined))
                    /\ UNCHANGED verifyCalls
             ELSE /\ verifyCalls' = [verifyCalls EXCEPT ![r] = @ + 1]
                  /\ pc' = [pc EXCEPT ![r] = "fetch1"]
                  /\ UNCHANGED <<resp, nResp>>
  /\ UNCHANGED <<mailCalls, subCalls, failed, outcome, decidedOn, data>>

\* the fetch of line 108 resolves: its response is dropped and the fetch of
\* line 115 is issued
Fetch1Resolve(r) ==
  /\ pc[r] = "fetch1"
  /\ verifyCalls' = [verifyCalls EXCEPT ![r] = @ + 1]
  /\ pc' = [pc EXCEPT ![r] = "fetch2"]
  /\ UNCHANGED <<raw, body, resp, nResp, mailCalls, subCalls, failed, outcome,
                 decidedOn, data>>

\* the fetch of line 108 throws outside any try: the handler's promise is
\* rejected.  What follows is the framework's: a router that ignores the
\* promise sends nothing (nor does a runtime that ends the process on an
\* unhandled rejection), one that forwards the rejection sends its error
\* page
Fetch1Reject(r) ==
  /\ pc[r] = "fetch1"
  /\ failed' = [failed EXCEPT ![r] = @ \cup {"verify"}]
  /\ pc' = [pc EXCEPT ![r] = "rejected"]
  /\ \/ UNCHANGED <<resp, nResp>>
     \/ /\ resp' = [resp EXCEPT ![r] = ErrorPage]
        /\ nResp' = [nResp EXCEPT ![r] = @ + 1]
  /\ UNCHANGED <<raw, body, verifyCalls, mailCalls, subCalls, outcome, decidedOn,
                 data>>

\* the fetch of line 115 resolves and response.json() is awaited
Fetch2Resolve(r) ==
  /\ pc[r] = "fetch2"
  /\ pc' = [pc EXCEPT ![r] = "json"]
  /\ UNCHANGED <<raw, body, resp, nResp, verifyCalls, mailCalls, subCalls, failed,
                 outcome, decidedOn, data>>

VerifyErrorResponse(r) ==
  Render(500, CaptchaError("Error verifying reCAPTCHA. Please try again."),
         {body[r]}, Undefined)

\* the fetch of line 115 or response.json() throws inside the try
VerifyReject(r) ==
  /\ pc[r] \in {"fetch2", "json"}
  /\ failed' = [failed EXCEPT ![r] = @ \cup {"verify"}]
  /\ Respond(r, VerifyErrorResponse(r))
  /\ UNCHANGED <<raw, body, verifyCalls, mailCalls, subCalls, outcome, decidedOn,
                 data>>

ScoreThreshold == 5

\* the check of line 136 without its score disjunct
CaptchaRejectedNoScore(d) ==
  ~d.success \/ d.action # "submit"

CaptchaRejected(d) ==
  ~d.success \/ d.score < ScoreThreshold \/ d.action # "submit"

\* the check reading what data held before this request's assignment, as it
\* would if the handler suspended between lines 121 and 136
JsonResolveStale(r, o) ==
  /\ pc[r] = "json"
  /\ data' = o
  /\ outcome' = [outcome EXCEPT ![r] = o]
  /\ decidedOn' = [decidedOn EXCEPT ![r] = IF data # NoData THEN data ELSE o]
  /\ IF CaptchaRejected(decidedOn'[r])
       THEN /\ Respond(r, Render(403,
                  CaptchaError("reCAPTCHA failed. Please try again."),
                  {body[r]}, Undefined))
            /\ UNCHANGED mailCalls
       ELSE /\ mailCalls' = [mailCalls EXCEPT ![r] = @ + 1]
            /\ pc' = [pc EXCEPT ![r] = "sendMail"]
            /\ UNCHANGED <<resp, nResp>>
  /\ UNCHANGED <<raw, body, verifyCalls, subCalls, failed>>

\* response.json() resolves with o: data is assigned, read back by the check
\* of line 136 in the same step, and sendMail is awaited when it passes
JsonResolve(r, o) ==
  /\ pc[r] = "json"
  /\ data' = o
  /\ outcome' = [outcome EXCEPT ![r] = o]
  /\ decidedOn' = [decidedOn EXCEPT ![r] = data']
  /\ IF CaptchaRejected(data')
       THEN /\ Respond(r, Render(403,
                  CaptchaError("reCAPTCHA failed. Please try again."),
                  {body[r]}, Undefined))
            /\ UNCHANGED mailCalls
       ELSE /\ mailCalls' = [mailCalls EXCEPT ![r] = @ + 1]
            /\ pc' = [pc EXCEPT ![r] = "sendMail"]
            /\ UNCHANGED <<resp, nResp>>
  /\ UNCHANGED <<raw, body, verifyCalls, subCalls, failed>>

SuccessResponse == Render(200, EmptyObject, {}, "Form submitted successfully!")

\* sendMail resolves: the list API is called when newsletter is set
SendMailResolve(r) ==
  /\ pc[r] = "sendMail"
  /\ IF Truthy(body[r].newsletter)
       THEN /\ subCalls' = [subCalls EXCEPT ![r] = @ + 1]
            /\ pc' = [pc EXCEPT ![r] = "mcFetch"]
            /\ UNCHANGED <<resp, nResp>>
       ELSE /\ Respond(r, SuccessResponse)
            /\ UNCHANGED subCalls
  /\ UNCHANGED <<raw, body, verifyCalls, mailCalls, failed, outcome, decidedOn,
                 data>>

\* the catch of line 180 without its return: the handler goes on to the
\* subscription
SendMailRejectNoReturn(r) ==
  /\ pc[r] = "sendMail"
  /\ failed' = [failed EXCEPT ![r] = @ \cup {"mail"}]
  /\ IF Truthy(body[r].newsletter)
       THEN /\ subCalls' = [subCalls EXCEPT ![r] = @ + 1]
            /\ pc' = [pc EXCEPT ![r] = "mcFetch"]
            /\ UNCHANGED <<resp, nResp>>
       ELSE /\ Respond(r, SuccessResponse)
            /\ UNCHANGED subCalls
  /\ UNCHANGED <<raw, body, verifyCalls, mailCalls, outcome, decidedOn, data>>

\* sendMail throws
SendMailReject(r) ==
  /\ pc[r] = "sendMail"
  /\ failed' = [failed EXCEPT ![r] = @ \cup {"mail"}]
  /\ Respond(r, Json(500, "Failed to send email"))
  /\ UNCHANGED <<raw, body, verifyCalls, mailCalls, subCalls, outcome, decidedOn,
                 data>>

\* the fetch of the list API resolves, with an OK status or not, and
\* mailchimpResponse.json() is awaited
McFetchResolve(r, ok) ==
  /\ pc[r] = "mcFetch"
  /\ pc' = [pc EXCEPT ![r] = "mcJson"]
  /\ failed' = [failed EXCEPT ![r] = IF ok THEN @ ELSE @ \cup {"listNotOk"}]
  /\ UNCHANGED <<raw, body, resp, nResp, verifyCalls, mailCalls, subCalls,
                 outcome, decidedOn, data>>

\* mailchimpResponse.json() resolves: a non-OK response is logged
McJsonResolve(r) ==
  /\ pc[r] = "mcJson"
  /\ Respond(r, SuccessResponse)
  /\ UNCHANGED <<raw, body, verifyCalls, mailCalls, subCalls, failed, outcome,
                 decidedOn, data>>

\* the catch of line 219 reporting the failure to the client
McRejectFatal(r) ==
  /\ pc[r] \in {"mcFetch", "mcJson"}
  /\ failed' = [failed EXCEPT ![r] = @ \cup {"list"}]
  /\ Respond(r, Json(500, "Failed to subscribe"))
  /\ UNCHANGED <<raw, body, verifyCalls, mailCalls, subCalls, outcome, decidedOn,
                 data>>

\* the fetch of the list API or mailchimpResponse.json() throws: logged
McReject(r) ==
  /\ pc[r] \in {"mcFetch", "mcJson"}
  /\ failed' = [failed EXCEPT ![r] = @ \cup {"list"}]
  /\ Respond(r, SuccessResponse)
  /\ UNCHANGED <<raw, body, verifyCalls, mailCalls, subCalls, outcome, decidedOn,
                 data>>

\* every step of a request after its arrival
Continue(r) ==
  \/ Fetch1Resolve(r)
  \/ Fetch1Reject(r)
  \/ Fetch2Resolve(r)
  \/ VerifyReject(r)
  \/ \E o \in Outcomes : JsonResolve(r, o)
  \/ SendMailResolve(r)
  \/ SendMailReject(r)
  \/ \E ok \in BOOLEAN : McFetchResolve(r, ok)
  \/ McJsonResolve(r)
  \/ McReject(r)

\* concurrent requests
Next == \E r \in Reqs : Post(r, Bodies) \/ Continue(r)

Spec == Init /\ [][Next]_vars

\* one request over the whole input space
NextOne == Post(1, AllBodies) \/ Continue(1)

SpecOne == Init /\ [][NextOne]_vars

\* ------------------------------------------------------------ properties
Posted(r) == pc[r] # "idle"

\* the handler of r returned or its promise was rejected
Finished(r) == pc[r] \in {"done", "rejected"}

PassedValidation(r) == Posted(r) /\ mapped(Sanitized(raw[r])) = EmptyObject

\* sendMail was called and resolved
MailDelivered(r) == mailCalls[r] > 0 /\ pc[r] # "sendMail" /\ "mail" \notin failed[r]

\* C1: a submission that passes validation and whose token is absent or
\* empty is answered 400 with the single error key captcha, and the request
\* makes no call to the verification endpoint, the mail relay or the list API
C1_MissingTokenRejectedBeforeAnyCall ==
  \A r \in Reqs :
    PassedValidation(r) /\ raw[r].token \in {Undefined, ""} =>
      /\ resp[r].status = 400
      /\ resp[r].kind = "render"
      /\ DOMAIN resp[r].errors = {"captcha"}
      /\ verifyCalls[r] = 0 /\ mailCalls[r] = 0 /\ subCalls[r] = 0

C1_Witness ==
  \E r \in Reqs :
    /\ PassedValidation(r) /\ raw[r].token = ""
    /\ resp[r].status = 400 /\ nResp[r] = 1

\* C2: when the verification outcome of a request has success false, a score
\* under 0.5 or an action other than submit, the request is answered 403 with
\* a captcha error and neither sendMail nor the list API is called for it
C2_CaptchaRejectionStopsPipeline ==
  \A r \in Reqs :
    /\ outcome[r] # NoData
    /\ (outcome[r].success = FALSE \/ outcome[r].score < 5
          \/ outcome[r].action # "submit")
    => /\ resp[r].status = 403
       /\ DOMAIN resp[r].errors = {"captcha"}
       /\ mailCalls[r] = 0 /\ subCalls[r] = 0

C2_Witness ==
  \E r \in Reqs :
    /\ outcome[r].success /\ outcome[r].score = 3 /\ outcome[r].action = "submit"
    /\ resp[r].status = 403
    /\ \E q \in Reqs \ {r} : mailCalls[q] = 1

\* C3: whenever a call to the verification endpoint throws or its response
\* cannot be parsed, the request is answered 500 with the form and the
\* captcha error "Error verifying reCAPTCHA. Please try again.", and sendMail
\* is not called
C3_VerifyFailureAnswered500 ==
  \A r \in Reqs :
    "verify" \in failed[r] =>
      /\ resp[r].status = 500
      /\ resp[r].kind = "render"
      /\ resp[r].errors = CaptchaError("Error verifying reCAPTCHA. Please try again.")
      /\ mailCalls[r] = 0

\* C4: a request whose handler has finished was sent exactly one response,
\* and that response is one of the handler's outcomes: a validation or
\* captcha rejection, the email failure or the success render
C4_ExactlyOneTerminalOutcome ==
  \A r \in Reqs :
    Finished(r) =>
      /\ nResp[r] = 1
      /\ \/ resp[r].status = 400 /\ DOMAIN resp[r].errors # {}
            /\ DOMAIN resp[r].errors \subseteq ValidatedFields
         \/ resp[r].status \in {400, 403, 500} /\ DOMAIN resp[r].errors = {"captcha"}
         \/ resp[r].status = 500 /\ resp[r].kind = "json"
         \/ resp[r].status = 200 /\ resp[r].successMessage # Undefined

\* C5: with newsletter set and the email delivered, no response is sent
\* before the subscription settles and the response then sent is the 200
\* success render (successMessage set, no errors, formData cleared), however
\* the call to the list API ends
C5_SubscriptionFailureSwallowed ==
  \A r \in Reqs :
    Truthy(raw[r].newsletter) /\ MailDelivered(r) =>
      IF pc[r] = "done"
        THEN /\ nResp[r] = 1
             /\ resp[r].status = 200 /\ resp[r].kind = "render"
             /\ resp[r].successMessage = "Form submitted successfully!"
             /\ resp[r].errors = EmptyObject
             /\ resp[r].formData = {}
        ELSE nResp[r] = 0

C5_Witness ==
  \E r \in Reqs :
    /\ Truthy(raw[r].newsletter) /\ MailDelivered(r)
    /\ "list" \in failed[r]
    /\ pc[r] = "done" /\ resp[r].status = 200

\* C6: when sendMail throws, the request is answered 500 with a JSON error
\* and no success message, sendMail was called once and the list API not at
\* all; the list API is called only after sendMail resolved and only with
\* newsletter set
C6_MailFailureIsFatal ==
  \A r \in Reqs :
    /\ "mail" \in failed[r] =>
         /\ resp[r].status = 500 /\ resp[r].kind = "json"
         /\ resp[r].error = "Failed to send email"
         /\ resp[r].successMessage = Undefined
         /\ nResp[r] = 1
         /\ mailCalls[r] = 1
         /\ subCalls[r] = 0
    /\ subCalls[r] > 0 => MailDelivered(r) /\ Truthy(raw[r].newsletter)

C6_Witness ==
  \E r \in Reqs :
    /\ "mail" \in failed[r] /\ Truthy(raw[r].newsletter) /\ pc[r] = "done"
    /\ \E q \in Reqs \ {r} : subCalls[q] = 1

\* C7: a submission whose first_name as submitted is shorter than 3
\* characters is answered 400 with an error for first_name
C7_ShortFirstNameRejected ==
  \A r \in Reqs :
    Posted(r) /\ Len(raw[r].first_name) < 3 =>
      /\ resp[r].status = 400
      /\ "first_name" \in DOMAIN resp[r].errors

\* C8: the form data of a 400 response to a validation failure is the input
\* as the client sent it
C8_ValidationEchoesOriginalInput ==
  \A r \in Reqs :
    /\ resp[r].status = 400
    /\ DOMAIN resp[r].errors \cap ValidatedFields # {}
    => resp[r].formData = {raw[r]}

\* C9: a request that passed validation and carries a token has called the
\* verification endpoint exactly once when its handler finishes, and never
\* more than once before
C9_VerifyCalledOnce ==
  \A r \in Reqs :
    PassedValidation(r) /\ Truthy(raw[r].token) =>
      /\ verifyCalls[r] <= 1
      /\ Finished(r) => verifyCalls[r] = 1

\* C10: with requests interleaved, the value of data read by the check of
\* a request is the outcome response.json() returned to that request, and
\* the request is accepted or rejected on that outcome
C10_DecisionOnOwnOutcome ==
  \A r \in Reqs :
    decidedOn[r] # NoData =>
      /\ decidedOn[r] = outcome[r]
      /\ mailCalls[r] > 0 <=>
           (outcome[r].success /\ outcome[r].score >= 5 /\ outcome[r].action = "submit")
      /\ resp[r].status = 403 <=>
           ~(outcome[r].success /\ outcome[r].score >= 5 /\ outcome[r].action = "submit")

\* two requests decided on different outcomes, the accepted one after data
\* had been assigned by the other and before it was overwritten again
C10_Witness ==
  \E r, q \in Reqs :
    /\ r # q
    /\ decidedOn[r] # NoData /\ decidedOn[q] # NoData
    /\ mailCalls[r] = 1 /\ resp[q].status = 403
    /\ data = outcome[q] /\ data # outcome[r]

====
